---- MODULE Spec2Model ----
(***************************************************************************)
(* quickstart.go: read client_secret.json, obtain an OAuth2 token (cached  *)
(* file or interactive exchange), fetch one range of a spreadsheet, print  *)
(* the rows and write them to gsheet_result.csv.                           *)
(*                                                                         *)
(* The state is the file system the program touches (token cache, its      *)
(* directory, the CSV file), the spreadsheet the API serves, and the       *)
(* position and locals of one process run.  Runs follow one another on the *)
(* same file system.  `log' and `failed' record what a run has done.       *)
(*                                                                         *)
(* Every call that can return an error does so nondeterministically; what  *)
(* happens next is what the code does with that error (log.Fatalf, a       *)
(* fallback, or nothing).  A failed write leaves no byte of its own in the *)
(* file.  The spreadsheet is not edited between the runs.  The bufio       *)
(* buffer behind csv.NewWriter is BufSize bytes, scaled down so that       *)
(* responses within the bounds overflow it.                                *)
(***************************************************************************)
EXTENDS Integers, Sequences, FiniteSets, TLC

\* ------------------------------------------------------------- bounds
MaxRows == 2
MaxCells == 2
BufSize == 3
MaxRuns == 2

\* ------------------------------------------------------------- values
\* a file is absent, present but not openable, or present with its bytes
Absent == [state |-> "absent", data |-> <<>>]
Locked == [state |-> "unreadable", data |-> <<>>]
File(d) == [state |-> "file", data |-> d]

\* a cell of resp.Values ([]interface{}): a Go string, or another JSON type
Str(t) == [str |-> TRUE, text |-> t]
NonString == [str |-> FALSE, text |-> <<"4", "2">>]
Texts == {<<"a">>, <<",", "\"">>}
Cells == {Str(t) : t \in Texts} \cup {NonString}

RECURSIVE RowsUpTo(_)
RowsUpTo(n) ==
    IF n = 0 THEN {<<>>}
    ELSE LET shorter == RowsUpTo(n - 1)
         IN  shorter \cup {Append(r, c) : r \in {x \in shorter : Len(x) = n - 1}, c \in Cells}

\* resp.Values: at most r rows holding at most n cells together
RECURSIVE ValuesUpTo(_, _)
ValuesUpTo(r, n) ==
    IF r = 0 THEN {<<>>}
    ELSE {<<>>} \cup
         UNION {{<<row>> \o rest : rest \in ValuesUpTo(r - 1, n - Len(row))}
                : row \in RowsUpTo(n)}

Sheets == ValuesUpTo(MaxRows, MaxCells)

\* oauth2.Token: the exported fields and the unexported raw response
AccessTokens == {"t1", "t2"}
Token(a, e, r) == [access |-> a, expired |-> e, raw |-> r]
NoToken == Token("none", FALSE, FALSE)
\* what the cache file may hold at the outset: a token of an earlier run,
\* expired by now or not
CachedTokens == {Token("t1", e, FALSE) : e \in BOOLEAN}
\* what config.Exchange returns: raw holds the token endpoint's response
ExchangeTokens == {Token(a, FALSE, TRUE) : a \in AccessTokens}

IsPrefix(s, t) == Len(s) <= Len(t) /\ SubSeq(t, 1, Len(s)) = s

\* ------------------------------------------------------------- token (de)serialisation
\* json.NewEncoder(f).Encode(token): the exported fields only
Serialize(t) == <<"{", t.access, IF t.expired THEN "past" ELSE "future", "}">>

\* json.NewDecoder(f).Decode(t) returns nil
DecodeOk(d) == Len(d) = 4 /\ d[1] = "{" /\ d[4] = "}"

\* the token Decode fills in; the zero token when it fails part-way
Decode(d) == IF DecodeOk(d) THEN Token(d[2], d[3] = "past", FALSE) ELSE NoToken

\* bytes a failed Encode may leave behind in the truncated file
EncodeLeftovers(t) == {<<>>, SubSeq(Serialize(t), 1, 2)}

\* ------------------------------------------------------------- encoding/csv
fieldNeedsQuotes(field) ==
    /\ field # <<>>
    /\ \/ \E i \in 1..Len(field) : field[i] \in {",", "\"", "\n", "\r"}
       \/ field[1] = " "

RECURSIVE QuoteBody(_)
QuoteBody(field) ==
    IF field = <<>> THEN <<>>
    ELSE (IF Head(field) = "\"" THEN <<"\"", "\"">> ELSE <<Head(field)>>)
         \o QuoteBody(Tail(field))

FormatField(field) ==
    IF fieldNeedsQuotes(field) THEN <<"\"">> \o QuoteBody(field) \o <<"\"">>
    ELSE field

RECURSIVE FormatFields(_)
FormatFields(record) ==
    IF record = <<>> THEN <<>>
    ELSE IF Len(record) = 1 THEN FormatField(record[1])
    ELSE FormatField(Head(record)) \o <<",">> \o FormatFields(Tail(record))

\* the bytes csv.Writer.Write hands to its bufio.Writer for one record
FormatRecord(record) == FormatFields(record) \o <<"\n">>

\* ------------------------------------------------------------- bufio.Writer
\* w = [buf, file, err]: buffered bytes, bytes already in the file, sticky error.
\* A byte that finds the buffer full forces a flush; the first `okFlushes'
\* flushes reach the disk, the next one fails and the error sticks.
RECURSIVE Put(_, _, _)
Put(w, bytes, okFlushes) ==
    IF w.err \/ bytes = <<>> THEN w
    ELSE IF Len(w.buf) >= BufSize
         THEN IF okFlushes = 0 THEN [w EXCEPT !.err = TRUE]
              ELSE Put([buf |-> <<>>, file |-> w.file \o w.buf, err |-> FALSE],
                       bytes, okFlushes - 1)
    ELSE Put([w EXCEPT !.buf = Append(@, Head(bytes))], Tail(bytes), okFlushes)

\* bufio.Writer.Flush on an open (or closed) file
FlushTo(w, open, diskOk) ==
    IF w.err \/ w.buf = <<>> THEN w
    ELSE IF open /\ diskOk THEN [buf |-> <<>>, file |-> w.file \o w.buf, err |-> FALSE]
    ELSE [w EXCEPT !.err = TRUE]

\* ------------------------------------------------------------- state
VARIABLES
    sheet,      \* what the values-get endpoint serves for A3:F6
    dirExists,  \* ~/.credentials exists
    cache,      \* the token cache file
    csv,        \* gsheet_result.csv
    pc,         \* the statement of main the run is at
    tok,        \* the token getClient hands to config.Client
    resp,       \* resp.Values
    idx,        \* index of the next row of the CSV loop
    buf,        \* bytes buffered in the csv.Writer
    fileOpen,   \* the *os.File of gsheet_result.csv is open
    defers,     \* main's deferred calls, in the order they were deferred
    panicking,  \* a run-time panic is unwinding main
    exitCode,   \* the exit status, once pc = "done"
    run,        \* number of the run
    log,        \* the I/O operations this run has attempted, in order
    failed,     \* the operations of this run that returned an error or panicked
    csvAtStart, \* gsheet_result.csv as the run found it
    cacheAtStart, \* the token cache file as the run found it
    prev        \* how the previous run ended, as far as the token cache goes

fsVars == <<dirExists, cache, csv>>
procVars == <<tok, resp, idx, buf, fileOpen, defers, panicking>>
vars == <<sheet, dirExists, cache, csv, pc, tok, resp, idx, buf, fileOpen, defers,
          panicking, exitCode, run, log, failed, csvAtStart, cacheAtStart, prev>>

NoRun == "none"

Init ==
    /\ sheet \in Sheets
    /\ dirExists \in BOOLEAN
    /\ cache \in IF dirExists
                 THEN {Absent, Locked, File(<<>>), File(<<"garbage">>)}
                      \cup {File(Serialize(t)) : t \in CachedTokens}
                 ELSE {Absent}
    /\ csv = Absent
    /\ pc = "readSecret"
    /\ tok = NoToken
    /\ resp = <<>>
    /\ idx = 1
    /\ buf = <<>>
    /\ fileOpen = FALSE
    /\ defers = <<>>
    /\ panicking = FALSE
    /\ exitCode = 0
    /\ run = 1
    /\ log = <<>>
    /\ failed = {}
    /\ csvAtStart = csv
    /\ cacheAtStart = cache
    /\ prev = NoRun

\* ------------------------------------------------------------- control
\* the run moves on to statement `next' having attempted `ops'
Step(ops, next) ==
    /\ pc' = next
    /\ log' = log \o ops
    /\ UNCHANGED <<exitCode, failed>>

\* as Step, but `err' was returned and the code does not look at it
Ignored(ops, err, next) ==
    /\ pc' = next
    /\ log' = log \o ops
    /\ failed' = failed \cup {err}
    /\ UNCHANGED exitCode

\* log.Fatal / log.Fatalf: os.Exit(1), deferred calls do not run
Fatal(ops, err) ==
    /\ pc' = "done"
    /\ log' = log \o ops
    /\ failed' = failed \cup {err}
    /\ exitCode' = 1

Static == UNCHANGED <<sheet, run, csvAtStart, cacheAtStart, prev>>

\* ------------------------------------------------------------- main, lines 100-110
\* variant: the error is logged and main carries on
OnSecretUnreadableContinue == Ignored(<<"readSecret">>, "readSecret", "parseSecret")

OnSecretUnreadable == Fatal(<<"readSecret">>, "readSecret")

ReadSecret ==
    /\ pc = "readSecret"
    /\ \E ok \in BOOLEAN :
          IF ok THEN Step(<<"readSecret">>, "parseSecret") ELSE OnSecretUnreadable
    /\ UNCHANGED <<fsVars, procVars>> /\ Static

ParseSecret ==
    /\ pc = "parseSecret"
    /\ \E ok \in BOOLEAN :
          IF ok THEN Step(<<"parseSecret">>, "cachePath")
          ELSE Fatal(<<"parseSecret">>, "parseSecret")
    /\ UNCHANGED <<fsVars, procVars>> /\ Static

\* ------------------------------------------------------------- getClient
\* tokenCacheFile, and getClient's check of its error
CachePath ==
    /\ pc = "cachePath"
    /\ \E userOk, mkdirOk \in BOOLEAN :
          IF ~userOk
          THEN Fatal(<<"cachePath">>, "cachePath") /\ UNCHANGED dirExists
          ELSE IF dirExists \/ mkdirOk
          THEN Step(<<"cachePath">>, "tokenFromFile") /\ dirExists' = TRUE
          ELSE Ignored(<<"cachePath">>, "mkdir", "tokenFromFile") /\ UNCHANGED dirExists
    /\ UNCHANGED <<cache, csv, procVars>> /\ Static

\* variant: a cached token past its expiry counts as no token
LoadFailsOrExpired(c) ==
    c.state # "file" \/ ~DecodeOk(c.data) \/ Decode(c.data).expired

\* tokenFromFile returns a non-nil error
LoadFails(c) == c.state # "file" \/ ~DecodeOk(c.data)

TokenFromFile ==
    /\ pc = "tokenFromFile"
    /\ tok' = IF cache.state = "file" THEN Decode(cache.data) ELSE NoToken
    /\ IF LoadFails(cache)
       THEN Step(<<"loadCache">>, "authorize")
       ELSE Step(<<"loadCache">>, "newService")
    /\ UNCHANGED <<fsVars, resp, idx, buf, fileOpen, defers, panicking>> /\ Static

\* getTokenFromWeb up to the Scan
Authorize ==
    /\ pc = "authorize"
    /\ \E ok \in BOOLEAN :
          IF ok THEN Step(<<"printURL", "scan">>, "exchange")
          ELSE Fatal(<<"printURL", "scan">>, "scan")
    /\ UNCHANGED <<fsVars, procVars>> /\ Static

Exchange ==
    /\ pc = "exchange"
    /\ \/ /\ Fatal(<<"exchange">>, "exchange")
          /\ UNCHANGED tok
       \/ /\ \E t \in ExchangeTokens : tok' = t
          /\ Step(<<"exchange">>, "saveToken")
    /\ UNCHANGED <<fsVars, resp, idx, buf, fileOpen, defers, panicking>> /\ Static

\* os.OpenFile(file, O_RDWR|O_CREATE|O_TRUNC) can succeed
CacheWritable == dirExists /\ cache.state # "unreadable"

SaveToken ==
    /\ pc = "saveToken"
    /\ \E openOk, encodeOk \in BOOLEAN :
          IF ~(CacheWritable /\ openOk)
          THEN Fatal(<<"openCache">>, "openCache") /\ UNCHANGED cache
          ELSE IF encodeOk
          THEN /\ Step(<<"openCache", "encode">>, "newService")
               /\ cache' = File(Serialize(tok))
          ELSE /\ Ignored(<<"openCache", "encode">>, "encode", "newService")
               /\ \E d \in EncodeLeftovers(tok) : cache' = File(d)
    /\ UNCHANGED <<dirExists, csv, procVars>> /\ Static

\* ------------------------------------------------------------- main, lines 113-147
NewService ==
    /\ pc = "newService"
    /\ \E ok \in BOOLEAN :
          IF ok THEN Step(<<"newService">>, "apiGet")
          ELSE Fatal(<<"newService">>, "newService")
    /\ UNCHANGED <<fsVars, procVars>> /\ Static

\* variant: the error is logged and main carries on with an empty response
OnApiErrorContinue == Ignored(<<"apiGet">>, "apiGet", "print") /\ UNCHANGED resp

OnApiError == Fatal(<<"apiGet">>, "apiGet") /\ UNCHANGED resp

ApiGet ==
    /\ pc = "apiGet"
    /\ \/ OnApiError
       \/ Step(<<"apiGet">>, "print") /\ resp' = sheet
    /\ UNCHANGED <<fsVars, tok, idx, buf, fileOpen, defers, panicking>> /\ Static

PrintRows ==
    /\ pc = "print"
    /\ Step(<<"print">>, "create")
    /\ UNCHANGED <<fsVars, procVars>> /\ Static

\* ------------------------------------------------------------- main, lines 149-165
\* variant: the file is opened for appending
TruncatedNot(old) == old

\* what os.Create leaves of the bytes the file held
Truncated(old) == <<>>

CreateCsv ==
    /\ pc = "create"
    /\ \/ /\ Fatal(<<"createCsv">>, "createCsv")
          /\ UNCHANGED <<csv, fileOpen, defers>>
       \/ /\ Step(<<"createCsv">>, "loop")
          /\ csv' = File(Truncated(csv.data))
          /\ fileOpen' = TRUE
          /\ defers' = <<"close", "flush">>
    /\ UNCHANGED <<dirExists, cache, tok, resp, idx, buf, panicking>> /\ Static

RowIsText(row) == \A j \in 1..Len(row) : row[j].str

\* cur: the row's cells asserted to string
Cur(row) == [j \in 1..Len(row) |-> row[j].text]

\* variant: the row with the bad cell is skipped and the loop goes on
OnBadCellSkip ==
    /\ pc' = "loop"
    /\ idx' = idx + 1
    /\ log' = Append(log, "skip")
    /\ failed' = failed \cup {"cell"}
    /\ UNCHANGED <<exitCode, panicking, buf, csv>>

\* item.(string) on a cell that is no string: a run-time panic
OnBadCell ==
    /\ pc' = "unwind"
    /\ panicking' = TRUE
    /\ log' = Append(log, "panic")
    /\ failed' = failed \cup {"cell"}
    /\ UNCHANGED <<exitCode, idx, buf, csv>>

WriteRow ==
    /\ pc = "loop"
    /\ idx <= Len(resp)
    /\ IF ~RowIsText(resp[idx]) THEN OnBadCell
       ELSE LET bytes == FormatRecord(Cur(resp[idx]))
            IN  \E okFlushes \in 0..(Len(bytes) \div BufSize + 1) :
                   LET w == Put([buf |-> buf, file |-> csv.data, err |-> FALSE],
                                bytes, okFlushes)
                   IN  /\ buf' = w.buf
                       /\ csv' = File(w.file)
                       /\ IF w.err
                          THEN Fatal(<<"write">>, "write") /\ UNCHANGED idx
                          ELSE Step(<<"write">>, "loop") /\ idx' = idx + 1
                       /\ UNCHANGED panicking
    /\ UNCHANGED <<dirExists, cache, tok, resp, fileOpen, defers>> /\ Static

\* main returns: the deferred calls run
Return ==
    /\ pc = "loop"
    /\ idx > Len(resp)
    /\ pc' = "unwind"
    /\ UNCHANGED <<fsVars, procVars, exitCode, log, failed>> /\ Static

\* variant: deferred calls run in the order they were deferred
NextDeferredFifo(d) == 1

\* the deferred call that runs next: the one deferred last
NextDeferred(d) == Len(d)

RunDeferred ==
    /\ pc = "unwind"
    /\ defers # <<>>
    /\ LET i == NextDeferred(defers)
           call == defers[i]
       IN  /\ defers' = SubSeq(defers, 1, i - 1) \o SubSeq(defers, i + 1, Len(defers))
           /\ log' = Append(log, call)
           /\ IF call = "flush"
              THEN \E diskOk \in BOOLEAN :
                      LET w == FlushTo([buf |-> buf, file |-> csv.data, err |-> FALSE],
                                       fileOpen, diskOk)
                      IN  /\ buf' = w.buf
                          /\ csv' = File(w.file)
                          /\ failed' = IF w.err THEN failed \cup {"flush"} ELSE failed
                          /\ UNCHANGED fileOpen
              ELSE /\ fileOpen' = FALSE
                   /\ UNCHANGED <<buf, csv, failed>>
    /\ UNCHANGED <<dirExists, cache, pc, tok, resp, idx, panicking, exitCode>> /\ Static

\* the process ends: status 0 from main's return, 2 from the panic
Exit ==
    /\ pc = "unwind"
    /\ defers = <<>>
    /\ pc' = "done"
    /\ exitCode' = IF panicking THEN 2 ELSE 0
    /\ UNCHANGED <<fsVars, procVars, log, failed>> /\ Static

\* the run exchanged a code for a token, saveToken returned, and the run
\* then died at the API call or in the CSV step
SavedThenFailed ==
    /\ \E i \in 1..Len(log) : log[i] = "encode"
    /\ failed \cap {"apiGet", "createCsv", "write", "cell"} # {}

\* the program is started again on the same file system
StartRun ==
    /\ pc = "done"
    /\ run < MaxRuns
    /\ run' = run + 1
    /\ prev' = IF SavedThenFailed THEN "savedThenFailed" ELSE "other"
    /\ csvAtStart' = csv
    /\ cacheAtStart' = cache
    /\ pc' = "readSecret"
    /\ tok' = NoToken
    /\ resp' = <<>>
    /\ idx' = 1
    /\ buf' = <<>>
    /\ fileOpen' = FALSE
    /\ defers' = <<>>
    /\ panicking' = FALSE
    /\ exitCode' = 0
    /\ log' = <<>>
    /\ failed' = {}
    /\ UNCHANGED <<sheet, fsVars>>

Next ==
    \/ ReadSecret
    \/ ParseSecret
    \/ CachePath
    \/ TokenFromFile
    \/ Authorize
    \/ Exchange
    \/ SaveToken
    \/ NewService
    \/ ApiGet
    \/ PrintRows
    \/ CreateCsv
    \/ WriteRow
    \/ Return
    \/ RunDeferred
    \/ Exit
    \/ StartRun

Spec == Init /\ [][Next]_vars

\* ------------------------------------------------------------- properties
InLog(op) == \E i \in 1..Len(log) : log[i] = op
Count(op) == Cardinality({i \in 1..Len(log) : log[i] = op})

\* the run has left getClient
PastGetClient == pc = "newService" \/ InLog("newService")

\* tokenFromFile ran and returned the token of the file the run found
CacheLoaded == InLog("loadCache") /\ cacheAtStart.state = "file" /\ DecodeOk(cacheAtStart.data)

\* tokenFromFile ran and returned an error
CacheLoadFailed ==
    InLog("loadCache") /\ (cacheAtStart.state # "file" \/ ~DecodeOk(cacheAtStart.data))

\* the serialised fields of two tokens agree
SameExported(s, t) == s.access = t.access /\ s.expired = t.expired

\* the CSV text of the first n rows of the response
RECURSIVE CsvOf(_, _)
CsvOf(rows, n) ==
    IF n = 0 THEN <<>> ELSE CsvOf(rows, n - 1) \o FormatRecord(Cur(rows[n]))

AllText(rows) == \A i \in 1..Len(rows) : RowIsText(rows[i])

\* index of the first row holding a cell that is no string
FirstBad(rows) == CHOOSE i \in 1..Len(rows) :
    ~RowIsText(rows[i]) /\ \A j \in 1..(i - 1) : RowIsText(rows[j])

CsvStepFailed == failed \cap {"createCsv", "write", "cell"} # {}

\* C1: when the cache file exists and decodes, getClient uses exactly the
\* decoded token, expired or not: no URL is printed, nothing is read from the
\* console, no exchange is made and the cache file is not opened for writing.
C1_CachedTokenUsedAsIs ==
    CacheLoaded =>
        /\ ~InLog("printURL") /\ ~InLog("scan") /\ ~InLog("exchange")
        /\ ~InLog("openCache") /\ ~InLog("encode")
        /\ cache = cacheAtStart
        /\ tok = Decode(cacheAtStart.data)
        /\ pc \notin {"authorize", "exchange", "saveToken"}

C1_Witness ==
    CacheLoaded /\ tok.expired /\ InLog("apiGet") /\ tok = Decode(cacheAtStart.data)

\* C2: when loading the cache fails, the run prints the URL, reads the code and
\* exchanges it, and once it is past getClient the cache file decodes without
\* error to the token that was exchanged.
C2_FreshTokenCached ==
    (CacheLoadFailed /\ PastGetClient) =>
        /\ InLog("printURL") /\ InLog("scan") /\ InLog("exchange")
        /\ cache.state = "file"
        /\ DecodeOk(cache.data)
        /\ SameExported(Decode(cache.data), tok)

\* C3: when client_secret.json cannot be read the run ends there with a fatal
\* error: reading the secret is the only operation of the run, so there is no
\* exchange, no API request, no prompt, no cache access and no CSV file.
C3_SecretUnreadableIsFatal ==
    "readSecret" \in failed =>
        /\ pc = "done" /\ exitCode = 1
        /\ log = <<"readSecret">>
        /\ cache = cacheAtStart /\ csv = csvAtStart

C3_Witness == "readSecret" \in failed /\ pc = "done"

\* C4: when the response holds a cell that is no string, the run ends with an
\* error at the first such cell: only rows before that cell's row are ever
\* handed to the CSV writer, the file holds nothing but (a prefix of) their
\* records, and the run does not exit 0.
C4_BadCellIsFatal ==
    (~AllText(resp) /\ InLog("createCsv") /\ "createCsv" \notin failed) =>
        LET b == FirstBad(resp)
        IN  /\ idx <= b
            /\ Count("write") < b
            /\ csv.state = "file"
            /\ IsPrefix(csv.data \o buf, CsvOf(resp, b - 1))
            /\ pc = "done" => exitCode # 0
            /\ (pc = "done" /\ "write" \notin failed) =>
                   ("cell" \in failed /\ exitCode = 2 /\ idx = b)

C4_Witness ==
    /\ pc = "done" /\ "cell" \in failed
    /\ ~AllText(resp) /\ FirstBad(resp) < Len(resp)

\* C5: the exit status is non-zero whenever some step of the run failed, and
\* it is 0 only when every retrieved row is in the CSV file.
C5_ExitStatus ==
    pc = "done" =>
        /\ failed # {} => exitCode # 0
        /\ exitCode = 0 => (csv.state = "file" /\ csv.data = CsvOf(resp, Len(resp)))

\* C6: for a response of strings only, a run that exits 0 leaves in the file
\* exactly the records of the response's rows, in order, and nothing else.
C6_CsvContent ==
    (pc = "done" /\ exitCode = 0 /\ AllText(resp)) =>
        /\ csv.state = "file"
        /\ csv.data = CsvOf(resp, Len(resp))

\* C7 as stated: when the run aborts in the CSV step, the output file is
\* absent or empty.
C7_AbsentOrEmpty ==
    (pc = "done" /\ CsvStepFailed) => (csv.state = "absent" \/ csv.data = <<>>)

\* C7 amended: when the run aborts in the CSV step, the file is as the run
\* found it if it could not be created; after a failed write it holds a prefix
\* of the records up to the row being written; after a cell that is no string
\* it holds a prefix of the records of the rows before that row, and all of
\* them when the deferred flush succeeded.
C7_PrefixOfRows ==
    (pc = "done" /\ CsvStepFailed) =>
        /\ "createCsv" \in failed => csv = csvAtStart
        /\ "write" \in failed =>
              (csv.state = "file" /\ IsPrefix(csv.data, CsvOf(resp, idx)))
        /\ "cell" \in failed =>
              /\ csv.state = "file"
              /\ IsPrefix(csv.data, CsvOf(resp, idx - 1))
              /\ "flush" \notin failed => csv.data = CsvOf(resp, idx - 1)

C7_Witness ==
    /\ pc = "done" /\ "cell" \in failed
    /\ csv.data # <<>> /\ csv.data = CsvOf(resp, idx - 1)

\* C8: a run that exits 0 has, after its last record, flushed the writer while
\* the file was open and closed the file after that, and nothing else since.
C8_FlushThenClose ==
    (pc = "done" /\ exitCode = 0) =>
        LET n == Len(log)
        IN  /\ n >= 3
            /\ log[n - 1] = "flush" /\ log[n] = "close"
            /\ ~fileOpen
            /\ \A i \in 1..(n - 2) : log[i] \notin {"flush", "close"}
            /\ Count("write") = Len(resp)
            /\ \A i \in 1..Len(resp) : log[n - 1 - i] = "write"
            /\ log[n - 2 - Len(resp)] = "createCsv"

C8_Witness == pc = "done" /\ exitCode = 0 /\ Len(resp) = MaxRows

\* C9: a run that follows one which exchanged a token, returned from saveToken
\* and then failed at the API call or in the CSV step loads the cache file
\* without error and never prompts.
C9_NextRunReusesToken ==
    prev = "savedThenFailed" =>
        /\ ~InLog("printURL") /\ ~InLog("scan")
        /\ InLog("loadCache") => CacheLoaded

\* C10: the output file changes only after a successful API request: a run
\* that ends at an earlier step leaves it as it found it.
C10_CsvUntouchedBeforeApi ==
    /\ csv # csvAtStart => (InLog("apiGet") /\ "apiGet" \notin failed)
    /\ InLog("createCsv") => (InLog("apiGet") /\ "apiGet" \notin failed)
    /\ (pc = "done" /\ failed \cap {"readSecret", "parseSecret", "cachePath", "scan",
                                    "exchange", "openCache", "newService", "apiGet"} # {})
          => csv = csvAtStart

C10_Witness ==
    /\ pc = "done" /\ "apiGet" \in failed
    /\ csvAtStart.state = "file" /\ csvAtStart.data # <<>>
    /\ csv = csvAtStart

====
